---- MODULE Spec2Model ----
(***************************************************************************)
(* Model of demo.py: the RealSense + YOLOv11 social-distancing monitor.    *)
(*                                                                         *)
(* Numbers.  The program computes in floating point; the model computes    *)
(* the same quantities exactly, in integers:                               *)
(*   - tensor box parameters (cx, cy, w, h) are integers in model-input    *)
(*     pixels; a decoded detection's coordinates are kept in SIXTEENTHS of *)
(*     a source pixel, which represents (cx -+ w/2) * 1280/640 and         *)
(*     (cy -+ h/2) * 720/640 without rounding;                             *)
(*   - scores are hundredths (0.35 is 35);                                 *)
(*   - a person box is in whole source pixels (the code truncates);        *)
(*   - a depth value is in decimetres and a deprojected point is kept      *)
(*     multiplied by the focal length FX, so with FX = 1000 one unit of a  *)
(*     point's coordinate is 0.1 mm;                                       *)
(*   - compute_iou returns the pair <<inter, union>> that stands for the   *)
(*     quotient inter / (union + 1e-6); IouLT, IouGT and IouEQ compare     *)
(*     that quotient with a rational threshold tn/td.                      *)
(* The values the model draws are small enough that the program's          *)
(* floating-point results order the same way as these exact ones.          *)
(***************************************************************************)
EXTENDS Integers, Sequences, FiniteSets, TLC

VARIABLES
    pc,               \* position of main()
    camera,           \* the RealSense pipeline: "off", "streaming", "stopped"
    engine,           \* the TensorRT wrapper: "none", "loaded"
    frames,           \* frame pairs delivered so far by wait_for_frames
    depth_frame,      \* whether the aligned depth sample is present
    color_frame,      \* whether the aligned color sample is present
    depth_image,      \* the depth sample of the current frame
    output,           \* the tensor returned by yolo.infer
    dets,             \* decode's list [x1, y1, x2, y2, score]
    person_positions, \* (id, X, Y, Z)
    person_boxes,     \* (id, left, top, right, bottom, depth)
    id_counter,
    close_pairs,      \* (pid1, pid2, dist3)
    nms_pc,           \* position inside nms: "idle", "entry", "loop", "ret"
    nms_arg,          \* the list nms was called with
    nms_dets,         \* nms's local dets, sorted, not yet decided
    keep,             \* nms's keep list
    iou_thresh,       \* nms's threshold, the rational <<num, den>>
    iou_pc,           \* position of a compute_iou call: "idle", "call", "ret"
    boxA,
    boxB,
    iou_ret           \* compute_iou's result

vars == <<pc, camera, engine, frames, depth_frame, color_frame, depth_image,
          output, dets, person_positions, person_boxes, id_counter,
          close_pairs, nms_pc, nms_arg, nms_dets, keep, iou_thresh,
          iou_pc, boxA, boxB, iou_ret>>

mainVars == <<pc, camera, engine, frames, depth_frame, color_frame,
              depth_image, output, dets, person_positions, person_boxes,
              id_counter, close_pairs>>

nmsVars == <<nms_pc, nms_arg, nms_dets, keep, iou_thresh>>

iouVars == <<iou_pc, boxA, boxB, iou_ret>>

-----------------------------------------------------------------------------
(* Program constants.                                                      *)

INPUT_W == 640
INPUT_H == 640
\* CONF_THRESH = 0.35, in hundredths
CONF_THRESH == 35
\* IOU_THRESH = 0.45 = 9/20
IOU_THRESH == <<9, 20>>
PERSON_CLASS_ID == 0
\* out.shape[0] != 84
NUM_ATTRS == 84
\* the color stream's resolution: frame.shape[:2] is (720, 1280)
ORIG_W == 1280
ORIG_H == 720
\* iou > 0.25 = 1/4
IOU_MERGE == <<1, 4>>
\* dist3d < 0.35 (metres), in centimetres
DIST3D_MERGE_CM == 35
\* dist3 < 0.8 (metres), in centimetres
PROXIMITY_CM == 80
\* pixel_dist < 140
PIXEL_MERGE == 140

(* The camera's intrinsics (depth_intrin), values the device reports.      *)
FX == 1000
PPX == 640
PPY == 360

-----------------------------------------------------------------------------
(* Bounds of the model.                                                    *)

MaxFrames == 2
\* anchors of a tensor, and boxes of a list handed to nms directly
MaxAnchors == 3

-----------------------------------------------------------------------------
(* Helpers.                                                                *)

Max(a, b) == IF a >= b THEN a ELSE b
Min(a, b) == IF a <= b THEN a ELSE b
Range(s) == {s[k] : k \in 1..Len(s)}

-----------------------------------------------------------------------------
(* compute_iou.                                                            *)

(* variant: the union taken as areaA + areaB                               *)
compute_iou_union_sum(a, b) ==
    LET xA == Max(a[1], b[1])
        yA == Max(a[2], b[2])
        xB == Min(a[3], b[3])
        yB == Min(a[4], b[4])
        interArea == Max(0, xB - xA) * Max(0, yB - yA)
        areaA == (a[3] - a[1]) * (a[4] - a[2])
        areaB == (b[3] - b[1]) * (b[4] - b[2])
    IN  <<interArea, areaA + areaB>>

compute_iou(a, b) ==
    LET xA == Max(a[1], b[1])
        yA == Max(a[2], b[2])
        xB == Min(a[3], b[3])
        yB == Min(a[4], b[4])
        interArea == Max(0, xB - xA) * Max(0, yB - yA)
        areaA == (a[3] - a[1]) * (a[4] - a[2])
        areaB == (b[3] - b[1]) * (b[4] - b[2])
    IN  <<interArea, areaA + areaB - interArea>>

(* Comparisons of r[1] / (r[2] + eps) with t[1] / t[2], for r[2] >= 0,     *)
(* t[2] > 0, t[1] >= 0 and 0 < t[1] * eps < 1 when t[1] > 0 (eps is 1e-6   *)
(* square pixels, 0.000256 square sixteenths).  r[1], r[2], t[1], t[2] are *)
(* integers, so r[1]*t[2] < t[1]*r[2] + t[1]*eps holds exactly when        *)
(* r[1]*t[2] <= t[1]*r[2] for t[1] > 0, and when r[1]*t[2] < 0 for         *)
(* t[1] = 0.                                                               *)
IouLT(r, t) ==
    IF t[1] = 0 THEN r[1] * t[2] < 0 ELSE r[1] * t[2] <= t[1] * r[2]

IouGT(r, t) == r[1] * t[2] > t[1] * r[2]

IouEQ(r, t) == ~IouLT(r, t) /\ ~IouGT(r, t)

-----------------------------------------------------------------------------
(* nms.                                                                    *)

(* sorted(dets, key=lambda x: x[4], reverse=True): Python's sort is        *)
(* stable, also with reverse=True, so equal scores keep their order.       *)
RECURSIVE InsertByScore(_, _)
InsertByScore(d, s) ==
    IF s = <<>> THEN <<d>>
    ELSE IF Head(s)[5] >= d[5] THEN <<Head(s)>> \o InsertByScore(d, Tail(s))
    ELSE <<d>> \o s

RECURSIVE SortedFrom(_, _)
SortedFrom(ds, acc) ==
    IF ds = <<>> THEN acc
    ELSE SortedFrom(Tail(ds), InsertByScore(Head(ds), acc))

(* variant: the list left in the caller's order                            *)
SortedByScore_unsorted(ds) == ds

SortedByScore(ds) == SortedFrom(ds, <<>>)

Box(d) == <<d[1], d[2], d[3], d[4]>>

(* variant: a box is kept when its IoU is <= iou_thresh                    *)
Suppress_le(best, ds, t) ==
    SelectSeq(ds, LAMBDA d : ~IouGT(compute_iou(Box(best), Box(d)), t))

(* new_dets: the boxes d of dets with compute_iou(best[:4], d[:4]) <       *)
(* iou_thresh, in order.                                                   *)
Suppress(best, ds, t) ==
    SelectSeq(ds, LAMBDA d : IouLT(compute_iou(Box(best), Box(d)), t))

(* if len(dets) == 0: return []; dets = sorted(...); keep = []             *)
NmsEntry ==
    /\ nms_pc = "entry"
    /\ IF Len(nms_arg) = 0
       THEN /\ keep' = <<>>
            /\ nms_dets' = <<>>
            /\ nms_pc' = "ret"
       ELSE /\ nms_dets' = SortedByScore(nms_arg)
            /\ keep' = <<>>
            /\ nms_pc' = "loop"
    /\ UNCHANGED <<nms_arg, iou_thresh>>
    /\ UNCHANGED mainVars
    /\ UNCHANGED iouVars

(* one pass of `while dets:`                                               *)
NmsRound ==
    /\ nms_pc = "loop"
    /\ nms_dets # <<>>
    /\ LET best == Head(nms_dets)
       IN  /\ keep' = Append(keep, best)
           /\ nms_dets' = Suppress(best, Tail(nms_dets), iou_thresh)
    /\ UNCHANGED <<nms_pc, nms_arg, iou_thresh>>
    /\ UNCHANGED mainVars
    /\ UNCHANGED iouVars

(* the loop ends: return keep                                              *)
NmsExit ==
    /\ nms_pc = "loop"
    /\ nms_dets = <<>>
    /\ nms_pc' = "ret"
    /\ UNCHANGED <<nms_arg, nms_dets, keep, iou_thresh>>
    /\ UNCHANGED mainVars
    /\ UNCHANGED iouVars

-----------------------------------------------------------------------------
(* Inputs of nms and compute_iou taken on their own.                       *)

(* Scored boxes [x1, y1, x2, y2, score]: the first three are the           *)
(* specification's example; box 4 has IoU 1/2 with box 1, box 5 has IoU    *)
(* 9/20 with box 6, boxes 1 and 6 share a score.                           *)
ScoredBoxes ==
    { <<0, 0, 10, 10, 90>>, <<1, 1, 11, 11, 80>>, <<50, 50, 60, 60, 70>>,
      <<0, 0, 10, 5, 85>>, <<0, 0, 20, 9, 60>>, <<0, 0, 20, 20, 90>> }

(* iou_thresh: 0, 0.45 (the default and IOU_THRESH), 0.5                   *)
Thresholds == { <<0, 1>>, <<9, 20>>, <<1, 2>> }

InjectiveSeqs(S, n) ==
    UNION { { s \in [1..k -> S] : \A i, j \in 1..k : i # j => s[i] # s[j] }
            : k \in 0..n }

IdleMain ==
    /\ pc = "idle"
    /\ camera = "off"
    /\ engine = "none"
    /\ frames = 0
    /\ depth_frame = FALSE
    /\ color_frame = FALSE
    /\ depth_image = <<>>
    /\ output = <<>>
    /\ dets = <<>>
    /\ person_positions = <<>>
    /\ person_boxes = <<>>
    /\ id_counter = 0
    /\ close_pairs = <<>>

IdleNms ==
    /\ nms_pc = "idle"
    /\ nms_arg = <<>>
    /\ nms_dets = <<>>
    /\ keep = <<>>
    /\ iou_thresh = IOU_THRESH

IdleIou ==
    /\ iou_pc = "idle"
    /\ boxA = <<>>
    /\ boxB = <<>>
    /\ iou_ret = <<>>

InitNms ==
    /\ IdleMain
    /\ IdleIou
    /\ nms_pc = "entry"
    /\ nms_arg \in InjectiveSeqs(ScoredBoxes, MaxAnchors)
    /\ nms_dets = <<>>
    /\ keep = <<>>
    /\ iou_thresh \in Thresholds

NextNms == NmsEntry \/ NmsRound \/ NmsExit

SpecNms == InitNms /\ [][NextNms]_vars

(* Boxes (left, top, right, bottom) with left < right and top < bottom,    *)
(* and degenerate ones.                                                    *)
Coords == {0, 1, 5, 10, 20}

PlainBoxes ==
    { b \in Coords \X Coords \X Coords \X Coords : b[1] <= b[3] /\ b[2] <= b[4] }

ComputeIou ==
    /\ iou_pc = "call"
    /\ iou_ret' = compute_iou(boxA, boxB)
    /\ iou_pc' = "ret"
    /\ UNCHANGED <<boxA, boxB>>
    /\ UNCHANGED mainVars
    /\ UNCHANGED nmsVars

InitIou ==
    /\ IdleMain
    /\ IdleNms
    /\ iou_pc = "call"
    /\ boxA \in PlainBoxes
    /\ boxB \in PlainBoxes
    /\ iou_ret = <<>>

NextIou == ComputeIou

SpecIou == InitIou /\ [][NextIou]_vars

-----------------------------------------------------------------------------
(* The tensor returned by yolo.infer and decode_yolov11_persons.           *)

(* A tensor is [shape0, cols]: shape0 is out.shape[0] and cols lists the   *)
(* anchors; an anchor is [box, scores] with box = <<cx, cy, w, h>> (rows   *)
(* 0..3) and scores the rows 4.. (shape0 - 4 of them).                     *)
ScoreRows(s0, s1, n) ==
    [k \in 1..(n - 4) |-> IF k = 1 THEN s0 ELSE IF k = 2 THEN s1 ELSE 0]

(* The anchors a tensor is made of: <<cx, cy, w, h, score of class 0,      *)
(* score of class 1>>; every other class scores 0.  In source pixels the   *)
(* boxes are, left..right: 1: 250..350, 2: 350..450, 3: 390..490,          *)
(* 4: 100..500, 5: 260..660 (taller than the frame), 6: 150..550,          *)
(* 7 and 9: 1050..1150, 8: 250..350; all but 5 span rows 180..540.         *)
AnchorChoices ==
    << <<150, 320, 50, 320, 90, 10>>,
       <<200, 320, 50, 320, 80, 10>>,
       <<220, 320, 50, 320, 70, 10>>,
       <<150, 320, 200, 320, 60, 10>>,
       <<230, 320, 200, 800, 50, 10>>,
       <<175, 320, 200, 320, 55, 10>>,
       <<550, 320, 50, 320, 35, 10>>,
       <<150, 320, 50, 320, 50, 60>>,
       <<550, 320, 50, 320, 40, 40>> >>

Anchor(c, n) == [box |-> <<c[1], c[2], c[3], c[4]>>, scores |-> ScoreRows(c[5], c[6], n)]

RECURSIVE PickAnchors(_, _, _)
PickAnchors(S, k, n) ==
    IF k > Len(AnchorChoices) THEN <<>>
    ELSE IF k \in S THEN <<Anchor(AnchorChoices[k], n)>> \o PickAnchors(S, k + 1, n)
    ELSE PickAnchors(S, k + 1, n)

Tensor(n, S) == [shape0 |-> n, cols |-> PickAnchors(S, 1, n)]

Outputs ==
    { Tensor(NUM_ATTRS, S) :
        S \in { T \in SUBSET (1..Len(AnchorChoices)) : Cardinality(T) <= MaxAnchors } }
    \cup { Tensor(10, {1}), Tensor(85, {1, 9}) }

(* np.max(scores, axis=1) and np.argmax(scores, axis=1): the first index   *)
(* of the maximum, counted from 0.                                         *)
MaxOf(sc) == CHOOSE m \in Range(sc) : \A k \in 1..Len(sc) : sc[k] <= m

ArgMax(sc) ==
    (CHOOSE k \in 1..Len(sc) :
        /\ sc[k] = MaxOf(sc)
        /\ \A m \in 1..(k - 1) : sc[m] # MaxOf(sc)) - 1

(* variant: cls_scores >= conf_thres                                       *)
Mask_ge(a) == ArgMax(a.scores) = PERSON_CLASS_ID /\ MaxOf(a.scores) >= CONF_THRESH

(* mask = (cls_ids == PERSON_CLASS_ID) & (cls_scores > conf_thres)         *)
Mask(a) == ArgMax(a.scores) = PERSON_CLASS_ID /\ MaxOf(a.scores) > CONF_THRESH

(* x * orig_w / INPUT_W and y * orig_h / INPUT_H of a doubled coordinate   *)
(* v2 = 2*cx -+ w, in sixteenths of a pixel: 8 * ORIG_W and 8 * ORIG_H are *)
(* multiples of 640, so the division is exact.                             *)
ScaleX16(v2) == v2 * ((8 * ORIG_W) \div INPUT_W)
ScaleY16(v2) == v2 * ((8 * ORIG_H) \div INPUT_H)

(* [x1, y1, x2, y2, score] of one anchor that passed the mask              *)
Candidate(a) ==
    << ScaleX16(2 * a.box[1] - a.box[3]),
       ScaleY16(2 * a.box[2] - a.box[4]),
       ScaleX16(2 * a.box[1] + a.box[3]),
       ScaleY16(2 * a.box[2] + a.box[4]),
       MaxOf(a.scores) >>

RECURSIVE Candidates(_)
Candidates(cols) ==
    IF cols = <<>> THEN <<>>
    ELSE IF Mask(Head(cols)) THEN <<Candidate(Head(cols))>> \o Candidates(Tail(cols))
    ELSE Candidates(Tail(cols))

-----------------------------------------------------------------------------
(* The depth sample and deprojection.                                      *)

(* A depth image <<dl, dr>> reads dl decimetres left of the principal      *)
(* column and dr from it on; 0 is a pixel without depth.                   *)
DepthImages == { <<10, 10>>, <<30, 30>>, <<10, 20>>, <<0, 10>> }

DepthAt(img, cy, cx) == IF cx < PPX THEN img[1] ELSE img[2]

(* rs2_deproject_pixel_to_point without distortion: depth * (px - ppx)/fx, *)
(* depth * (py - ppy)/fy, depth; kept multiplied by FX.                    *)
Deproject(px, py, depth) == <<depth * (px - PPX), depth * (py - PPY), depth * FX>>

Abs(x) == IF x < 0 THEN -x ELSE x

Dist2(p, q) ==
    (p[1] - q[1]) * (p[1] - q[1]) + (p[2] - q[2]) * (p[2] - q[2])
        + (p[3] - q[3]) * (p[3] - q[3])

(* np.linalg.norm(p - q) < cm / 100: a distance below the threshold has    *)
(* every component below it, which keeps the squares small.                *)
DistLT(p, q, cm) ==
    LET thr == (cm * FX) \div 10
    IN  /\ Abs(p[1] - q[1]) < thr
        /\ Abs(p[2] - q[2]) < thr
        /\ Abs(p[3] - q[3]) < thr
        /\ Dist2(p, q) < thr * thr

-----------------------------------------------------------------------------
(* main(): 3. Get 3D Coordinates.                                          *)

(* int(max(0, min(limit - 1, v))) of a coordinate in sixteenths            *)
ClampInt(v16, limit) == Max(0, Min((limit - 1) * 16, v16)) \div 16

(* variant: the counter set once, before the loop                          *)
FirstId_carried(prev) == IF prev = 0 THEN 1 ELSE prev

(* id_counter = 1                                                          *)
FirstId(prev) == 1

(* one pass of `for det in dets:`, as [box, position] for the given id     *)
PersonOf(det, id, img) ==
    LET left_i == ClampInt(det[1], ORIG_W)
        top_i == ClampInt(det[2], ORIG_H)
        right_i == ClampInt(det[3], ORIG_W)
        bottom_i == ClampInt(det[4], ORIG_H)
        cx == Max(0, Min((left_i + right_i) \div 2, ORIG_W - 1))
        cy == Max(0, Min((top_i + bottom_i) \div 2, ORIG_H - 1))
        depth_value == DepthAt(img, cy, cx)
        P == Deproject(cx, cy, depth_value)
    IN  [box |-> <<id, left_i, top_i, right_i, bottom_i, depth_value>>,
         position |-> <<id, P[1], P[2], P[3]>>]

RECURSIVE PersonsFrom(_, _, _, _)
PersonsFrom(ds, id, img, acc) ==
    IF ds = <<>> THEN acc
    ELSE LET p == PersonOf(Head(ds), id, img)
         IN  PersonsFrom(Tail(ds), id + 1, img,
                         [positions |-> Append(acc.positions, p.position),
                          boxes |-> Append(acc.boxes, p.box),
                          id_counter |-> id + 1])

-----------------------------------------------------------------------------
(* main(): 4. IoU + 3D Merge.                                              *)

BoxOf(pb) == <<pb[2], pb[3], pb[4], pb[5]>>
PointOf(pp) == <<pp[2], pp[3], pp[4]>>

(* pixel_dist < 140 with cx = (l + r) * 0.5, cy = (t + b) * 0.5: both      *)
(* sides doubled and squared                                               *)
PixelDistLT(b1, b2, px) ==
    LET dx == (b1[1] + b1[3]) - (b2[1] + b2[3])
        dy == (b1[2] + b1[4]) - (b2[2] + b2[4])
    IN  dx * dx + dy * dy < (2 * px) * (2 * px)

(* (iou > 0.25 and dist3d < 0.35) or pixel_dist < 140                      *)
MergeRule(b1, p1, b2, p2) ==
    \/ /\ IouGT(compute_iou(b1, b2), IOU_MERGE)
       /\ DistLT(p1, p2, DIST3D_MERGE_CM)
    \/ PixelDistLT(b1, b2, PIXEL_MERGE)

(* the inner loop over j in range(i + 1, len(person_boxes))                *)
RECURSIVE MergeInner(_, _, _, _, _)
MergeInner(i, j, skip, pb, pp) ==
    IF j > Len(pb) THEN skip
    ELSE IF j \in skip THEN MergeInner(i, j + 1, skip, pb, pp)
    ELSE IF MergeRule(BoxOf(pb[i]), PointOf(pp[i]), BoxOf(pb[j]), PointOf(pp[j]))
         THEN MergeInner(i, j + 1, skip \cup {j}, pb, pp)
         ELSE MergeInner(i, j + 1, skip, pb, pp)

(* variant: the outer loop without `if i in skip: continue` before the     *)
(* inner loop, so that a skipped i still absorbs later candidates          *)
RECURSIVE MergeOuter_absorbing(_, _, _, _, _)
MergeOuter_absorbing(i, skip, merged, pb, pp) ==
    IF i > Len(pb) THEN merged
    ELSE LET s2 == MergeInner(i, i + 1, skip, pb, pp)
         IN  MergeOuter_absorbing(i + 1, s2,
                 IF i \in skip THEN merged ELSE Append(merged, pb[i]), pb, pp)

RECURSIVE MergeOuter(_, _, _, _, _)
MergeOuter(i, skip, merged, pb, pp) ==
    IF i > Len(pb) THEN merged
    ELSE IF i \in skip THEN MergeOuter(i + 1, skip, merged, pb, pp)
    ELSE MergeOuter(i + 1, MergeInner(i, i + 1, skip, pb, pp),
                    Append(merged, pb[i]), pb, pp)

Merged_absorbing(pb, pp) == MergeOuter_absorbing(1, {}, <<>>, pb, pp)

Merged(pb, pp) == MergeOuter(1, {}, <<>>, pb, pp)

-----------------------------------------------------------------------------
(* main(): 5. Inter-person Distance Calculation.                           *)

(* the point deprojected from a person box's center and depth              *)
CenterPoint(pb) == Deproject((pb[2] + pb[4]) \div 2, (pb[3] + pb[5]) \div 2, pb[6])

(* variant: dist3 <= 0.8                                                   *)
DistLE(p, q, cm) ==
    LET thr == (cm * FX) \div 10
    IN  /\ Abs(p[1] - q[1]) <= thr
        /\ Abs(p[2] - q[2]) <= thr
        /\ Abs(p[3] - q[3]) <= thr
        /\ Dist2(p, q) <= thr * thr

ClosePair_le(p1, p2) ==
    IF DistLE(CenterPoint(p1), CenterPoint(p2), PROXIMITY_CM)
    THEN << <<p1[1], p2[1], Dist2(CenterPoint(p1), CenterPoint(p2))>> >>
    ELSE <<>>

(* if dist3 < 0.8: close_pairs.append((pid1, pid2, dist3)); the model      *)
(* records the squared distance                                            *)
ClosePair(p1, p2) ==
    IF DistLT(CenterPoint(p1), CenterPoint(p2), PROXIMITY_CM)
    THEN << <<p1[1], p2[1], Dist2(CenterPoint(p1), CenterPoint(p2))>> >>
    ELSE <<>>

RECURSIVE PairsInner(_, _, _)
PairsInner(i, j, pb) ==
    IF j > Len(pb) THEN <<>>
    ELSE ClosePair(pb[i], pb[j]) \o PairsInner(i, j + 1, pb)

RECURSIVE PairsOuter(_, _)
PairsOuter(i, pb) ==
    IF i > Len(pb) THEN <<>>
    ELSE PairsInner(i, i + 1, pb) \o PairsOuter(i + 1, pb)

ClosePairs(pb) == PairsOuter(1, pb)

-----------------------------------------------------------------------------
(* main().                                                                 *)

nmsIdle ==
    /\ nms_pc' = "idle"
    /\ nms_arg' = <<>>
    /\ nms_dets' = <<>>
    /\ keep' = <<>>
    /\ iou_thresh' = IOU_THRESH

frameVars == <<depth_frame, color_frame, depth_image, output, dets,
               person_positions, person_boxes, id_counter, close_pairs>>

(* profile = pipeline.start(config)                                        *)
StartCamera ==
    /\ pc = "start"
    /\ camera' = "streaming"
    /\ pc' = "init_engine"
    /\ UNCHANGED <<engine, frames>>
    /\ UNCHANGED frameVars
    /\ UNCHANGED nmsVars
    /\ UNCHANGED iouVars

(* pipeline.start raises (no device): the exception leaves main            *)
StartCameraFails ==
    /\ pc = "start"
    /\ pc' = "exited"
    /\ UNCHANGED <<camera, engine, frames>>
    /\ UNCHANGED frameVars
    /\ UNCHANGED nmsVars
    /\ UNCHANGED iouVars

(* yolo = TRT_YOLOv11(ENGINE_PATH)                                         *)
InitEngine ==
    /\ pc = "init_engine"
    /\ engine' = "loaded"
    /\ pc' = "wait"
    /\ UNCHANGED <<camera, frames>>
    /\ UNCHANGED frameVars
    /\ UNCHANGED nmsVars
    /\ UNCHANGED iouVars

(* TRT_YOLOv11.__init__ raises (open() fails, deserialization fails, the   *)
(* assert fails): the call stands before `try:`, so the exception leaves   *)
(* main without running the finally block                                  *)
InitEngineFails ==
    /\ pc = "init_engine"
    /\ pc' = "exited"
    /\ UNCHANGED <<camera, engine, frames>>
    /\ UNCHANGED frameVars
    /\ UNCHANGED nmsVars
    /\ UNCHANGED iouVars

(* frames = pipeline.wait_for_frames(); align; get_depth_frame();          *)
(* get_color_frame()                                                       *)
WaitForFrames ==
    /\ pc = "wait"
    /\ frames < MaxFrames
    /\ frames' = frames + 1
    /\ depth_frame' \in BOOLEAN
    /\ color_frame' \in BOOLEAN
    /\ IF depth_frame' THEN depth_image' \in DepthImages ELSE depth_image' = <<>>
    /\ pc' = "check"
    /\ UNCHANGED <<camera, engine, output, dets, person_positions,
                   person_boxes, id_counter, close_pairs>>
    /\ UNCHANGED nmsVars
    /\ UNCHANGED iouVars

(* variant: `and` in place of `or`                                         *)
CheckFrames_and ==
    /\ pc = "check"
    /\ pc' = IF ~depth_frame /\ ~color_frame THEN "wait" ELSE "infer"
    /\ UNCHANGED <<camera, engine, frames>>
    /\ UNCHANGED frameVars
    /\ UNCHANGED nmsVars
    /\ UNCHANGED iouVars

(* if not depth_frame or not color_frame: continue                         *)
CheckFrames ==
    /\ pc = "check"
    /\ pc' = IF ~depth_frame \/ ~color_frame THEN "wait" ELSE "infer"
    /\ UNCHANGED <<camera, engine, frames>>
    /\ UNCHANGED frameVars
    /\ UNCHANGED nmsVars
    /\ UNCHANGED iouVars

(* input_tensor = preprocess(frame); output = yolo.infer(input_tensor)     *)
Infer ==
    /\ pc = "infer"
    /\ output' \in Outputs
    /\ pc' = "decode"
    /\ UNCHANGED <<camera, engine, frames, depth_frame, color_frame,
                   depth_image, dets, person_positions, person_boxes,
                   id_counter, close_pairs>>
    /\ UNCHANGED nmsVars
    /\ UNCHANGED iouVars

(* variant: no check of the attribute count                                *)
ShapeOk_any(out) == TRUE

(* if out.shape[0] != 84: return []                                        *)
ShapeOk(out) == out.shape0 = NUM_ATTRS

(* decode_yolov11_persons up to its call of nms: the two early returns,    *)
(* the candidate list                                                      *)
Decode ==
    /\ pc = "decode"
    /\ IF ~ShapeOk(output) \/ Candidates(output.cols) = <<>>
       THEN /\ dets' = <<>>
            /\ pc' = "positions"
            /\ UNCHANGED nmsVars
       ELSE /\ dets' = Candidates(output.cols)
            /\ pc' = "decode_nms"
            /\ nms_pc' = "entry"
            /\ nms_arg' = Candidates(output.cols)
            /\ iou_thresh' = IOU_THRESH
            /\ UNCHANGED <<nms_dets, keep>>
    /\ UNCHANGED <<camera, engine, frames, depth_frame, color_frame,
                   depth_image, output, person_positions, person_boxes,
                   id_counter, close_pairs>>
    /\ UNCHANGED iouVars

(* dets = nms(dets, IOU_THRESH); return dets                               *)
DecodeReturn ==
    /\ pc = "decode_nms"
    /\ nms_pc = "ret"
    /\ dets' = keep
    /\ pc' = "positions"
    /\ nmsIdle
    /\ UNCHANGED <<camera, engine, frames, depth_frame, color_frame,
                   depth_image, output, person_positions, person_boxes,
                   id_counter, close_pairs>>
    /\ UNCHANGED iouVars

(* 3. Get 3D Coordinates                                                   *)
Positions ==
    /\ pc = "positions"
    /\ LET r == PersonsFrom(dets, FirstId(id_counter), depth_image,
                            [positions |-> <<>>, boxes |-> <<>>,
                             id_counter |-> FirstId(id_counter)])
       IN  /\ person_positions' = r.positions
           /\ person_boxes' = r.boxes
           /\ id_counter' = r.id_counter
    /\ pc' = "merge"
    /\ UNCHANGED <<camera, engine, frames, depth_frame, color_frame,
                   depth_image, output, dets, close_pairs>>
    /\ UNCHANGED nmsVars
    /\ UNCHANGED iouVars

(* 4. IoU + 3D Merge; person_boxes = merged                                *)
Merge ==
    /\ pc = "merge"
    /\ person_boxes' = Merged(person_boxes, person_positions)
    /\ pc' = "proximity"
    /\ UNCHANGED <<camera, engine, frames, depth_frame, color_frame,
                   depth_image, output, dets, person_positions, id_counter,
                   close_pairs>>
    /\ UNCHANGED nmsVars
    /\ UNCHANGED iouVars

(* 5. Inter-person Distance Calculation                                    *)
Proximity ==
    /\ pc = "proximity"
    /\ close_pairs' = ClosePairs(person_boxes)
    /\ pc' = "render"
    /\ UNCHANGED <<camera, engine, frames, depth_frame, color_frame,
                   depth_image, output, dets, person_positions, person_boxes,
                   id_counter>>
    /\ UNCHANGED nmsVars
    /\ UNCHANGED iouVars

(* 6. to 10.: drawing and cv.imshow change nothing the pipeline reads      *)
Render ==
    /\ pc = "render"
    /\ pc' = "key"
    /\ UNCHANGED <<camera, engine, frames>>
    /\ UNCHANGED frameVars
    /\ UNCHANGED nmsVars
    /\ UNCHANGED iouVars

(* key = cv.waitKey(1), no stop key: the next pass of `while True`.  The   *)
(* lists of the finished frame are rebound before they are read again;    *)
(* the model empties them here.  id_counter keeps its value until line     *)
(* 264 assigns it.                                                         *)
KeyContinue ==
    /\ pc = "key"
    /\ pc' = "wait"
    /\ depth_frame' = FALSE
    /\ color_frame' = FALSE
    /\ depth_image' = <<>>
    /\ output' = <<>>
    /\ dets' = <<>>
    /\ person_positions' = <<>>
    /\ person_boxes' = <<>>
    /\ close_pairs' = <<>>
    /\ UNCHANGED <<camera, engine, frames, id_counter>>
    /\ UNCHANGED nmsVars
    /\ UNCHANGED iouVars

(* key == 27 or key == ord('q'): break                                     *)
KeyBreak ==
    /\ pc = "key"
    /\ pc' = "finally"
    /\ UNCHANGED <<camera, engine, frames>>
    /\ UNCHANGED frameVars
    /\ UNCHANGED nmsVars
    /\ UNCHANGED iouVars

(* the calls of the loop that raise: wait_for_frames (no frame within its  *)
(* timeout), yolo.infer (CUDA), the OpenCV drawing and display calls       *)
RaisingPcs == {"wait", "infer", "render"}

(* an exception raised inside `try:`: control goes to the finally block    *)
LoopError ==
    /\ pc \in RaisingPcs
    /\ pc' = "finally"
    /\ UNCHANGED <<camera, engine, frames>>
    /\ UNCHANGED frameVars
    /\ UNCHANGED nmsVars
    /\ UNCHANGED iouVars

(* finally: pipeline.stop(); cv.destroyAllWindows()                        *)
Finally ==
    /\ pc = "finally"
    /\ camera' = "stopped"
    /\ pc' = "exited"
    /\ UNCHANGED <<engine, frames>>
    /\ UNCHANGED frameVars
    /\ UNCHANGED nmsVars
    /\ UNCHANGED iouVars

Init ==
    /\ pc = "start"
    /\ camera = "off"
    /\ engine = "none"
    /\ frames = 0
    /\ depth_frame = FALSE
    /\ color_frame = FALSE
    /\ depth_image = <<>>
    /\ output = <<>>
    /\ dets = <<>>
    /\ person_positions = <<>>
    /\ person_boxes = <<>>
    /\ id_counter = 0
    /\ close_pairs = <<>>
    /\ IdleNms
    /\ IdleIou

Next ==
    \/ StartCamera
    \/ StartCameraFails
    \/ InitEngine
    \/ InitEngineFails
    \/ WaitForFrames
    \/ CheckFrames
    \/ Infer
    \/ Decode
    \/ NmsEntry
    \/ NmsRound
    \/ NmsExit
    \/ DecodeReturn
    \/ Positions
    \/ Merge
    \/ Proximity
    \/ Render
    \/ KeyContinue
    \/ KeyBreak
    \/ LoopError
    \/ Finally

Spec == Init /\ [][Next]_vars

-----------------------------------------------------------------------------
(* Properties of compute_iou, checked under SpecIou.                       *)

NonDegenerate(b) == b[1] < b[3] /\ b[2] < b[4]

(* C10 as stated: compute_iou(a, a) == 1.0 for any non-degenerate box a    *)
(* (left < right, top < bottom).                                           *)
C10_SelfIouIsOne ==
    (iou_pc = "ret" /\ boxA = boxB /\ NonDegenerate(boxA))
        => IouEQ(iou_ret, <<1, 1>>)

(* C10 amended: for a non-degenerate box a on whole-pixel coordinates      *)
(* inside a frame, compute_iou(a, a) is area / (area + 1e-6), with         *)
(* intersection = union = area >= 1: below 1.0 and above 0.999999.         *)
C10_SelfIouJustBelowOne ==
    (iou_pc = "ret" /\ boxA = boxB /\ NonDegenerate(boxA))
        => /\ iou_ret[1] = iou_ret[2]
           /\ iou_ret[1] = (boxA[3] - boxA[1]) * (boxA[4] - boxA[2])
           /\ IouLT(iou_ret, <<1, 1>>)
           /\ IouGT(iou_ret, <<999999, 1000000>>)

C10_Witness ==
    /\ iou_pc = "ret"
    /\ boxA = <<0, 0, 10, 10>>
    /\ boxB = boxA
    /\ iou_ret = <<100, 100>>

-----------------------------------------------------------------------------
(* Properties of nms, checked under SpecNms.                               *)

IouOf(d, e) == compute_iou(Box(d), Box(e))

(* C2 as stated: the list returned by nms contains no two boxes whose IoU  *)
(* is above t, and every input box missing from the result overlaps (IoU   *)
(* above t) some kept box whose score is greater than or equal to its own. *)
C2_NmsSuppressedAboveThreshold ==
    nms_pc = "ret" =>
        /\ \A i, j \in 1..Len(keep) :
               i # j => ~IouGT(IouOf(keep[i], keep[j]), iou_thresh)
        /\ \A d \in Range(nms_arg) \ Range(keep) :
               \E k \in Range(keep) :
                   k[5] >= d[5] /\ IouGT(IouOf(k, d), iou_thresh)

(* C2 amended: the list returned by nms is a sub-list of its input with no *)
(* two boxes whose IoU (as compute_iou returns it) is above t (each pair   *)
(* is below t), and every input box missing from the result has an IoU     *)
(* that is not below t (equal to t or above it) with some kept box whose   *)
(* score is greater than or equal to its own.                              *)
C2_NmsSuppressedAtOrAboveThreshold ==
    nms_pc = "ret" =>
        /\ Range(keep) \subseteq Range(nms_arg)
        /\ \A i, j \in 1..Len(keep) :
               i # j => /\ ~IouGT(IouOf(keep[i], keep[j]), iou_thresh)
                        /\ IouLT(IouOf(keep[i], keep[j]), iou_thresh)
        /\ \A d \in Range(nms_arg) \ Range(keep) :
               \E k \in Range(keep) :
                   k[5] >= d[5] /\ ~IouLT(IouOf(k, d), iou_thresh)

(* the specification's example at 0.45: the second box is dropped          *)
C2_Witness ==
    /\ nms_pc = "ret"
    /\ iou_thresh = <<9, 20>>
    /\ nms_arg = << <<0, 0, 10, 10, 90>>, <<1, 1, 11, 11, 80>>, <<50, 50, 60, 60, 70>> >>
    /\ keep = << <<0, 0, 10, 10, 90>>, <<50, 50, 60, 60, 70>> >>

(* a round of nms: the step taken from a state inside the loop with boxes  *)
(* left                                                                    *)
InRound == nms_pc = "loop" /\ nms_dets # <<>>

(* C3 as stated: in each round, after the highest-remaining-score box is   *)
(* selected, a remaining box is removed only when its IoU with the         *)
(* selected box exceeds t; a remaining box whose IoU with the selected box *)
(* is exactly equal to t stays in the remaining set.                       *)
C3_RoundRemovesOnlyAbove ==
    [][InRound =>
         \A k \in 2..Len(nms_dets) :
             LET r == IouOf(Head(nms_dets), nms_dets[k])
             IN  /\ nms_dets[k] \notin Range(nms_dets') => IouGT(r, iou_thresh)
                 /\ IouEQ(r, iou_thresh) => nms_dets[k] \in Range(nms_dets')]_vars

(* C3 amended: in each round the first (highest-score) remaining box is    *)
(* appended to keep, and a remaining box is removed exactly when its IoU   *)
(* with the selected box, inter / (union + 1e-6), is not below t: above t  *)
(* or equal to t; the boxes that stay keep their order.                    *)
C3_RoundRemovesAtOrAbove ==
    [][InRound =>
         /\ keep' = Append(keep, Head(nms_dets))
         /\ \A k \in 1..Len(nms_dets) : nms_dets[k][5] <= Head(nms_dets)[5]
         /\ \A k \in 2..Len(nms_dets) :
                LET r == IouOf(Head(nms_dets), nms_dets[k])
                IN  nms_dets[k] \notin Range(nms_dets')
                        <=> (IouGT(r, iou_thresh) \/ IouEQ(r, iou_thresh))
         /\ nms_dets' = SelectSeq(Tail(nms_dets), LAMBDA d : d \in Range(nms_dets'))]_vars

(* a round has removed a box whose IoU with the selected box equals t      *)
C3_Witness ==
    /\ nms_pc = "loop"
    /\ keep # <<>>
    /\ \E d \in Range(nms_arg) :
           /\ d \notin Range(keep)
           /\ d \notin Range(nms_dets)
           /\ IouEQ(IouOf(keep[Len(keep)], d), iou_thresh)

-----------------------------------------------------------------------------
(* Properties of main(), checked under Spec.                               *)

(* the merge rule in the claim's words, on candidates i and j of the lists *)
(* pb (boxes) and pp (positions)                                           *)
Matches(pb, pp, i, j) ==
    \/ /\ IouGT(compute_iou(BoxOf(pb[i]), BoxOf(pb[j])), <<1, 4>>)
       /\ DistLT(PointOf(pp[i]), PointOf(pp[j]), 35)
    \/ PixelDistLT(BoxOf(pb[i]), BoxOf(pb[j]), 140)

(* C1: the merge is a greedy single pass: candidate j is excluded from the *)
(* output exactly when some earlier candidate i that itself survives       *)
(* satisfies (iou > 0.25 and distance3d < 0.35) or pixel-center distance   *)
(* < 140; an excluded candidate is never an anchor; the survivors keep     *)
(* their original relative order.                                          *)
C1_GreedySinglePass ==
    [][(pc = "merge" /\ pc' = "proximity") =>
         LET pb == person_boxes
             pp == person_positions
             out == person_boxes'
             Surv == {j \in 1..Len(pb) : pb[j] \in Range(out)}
         IN  /\ \A j \in 1..Len(pb) :
                    j \notin Surv
                        <=> \E i \in 1..(j - 1) : i \in Surv /\ Matches(pb, pp, i, j)
             /\ out = SelectSeq(pb, LAMBDA x : x \in Range(out))]_vars

(* the chain: candidate 1 absorbed candidate 2, candidate 2 matches        *)
(* candidate 3, candidate 1 does not, and candidate 3 survived             *)
C1_Witness ==
    /\ pc = "proximity"
    /\ Len(dets) = 3
    /\ Len(person_boxes) = 2
    /\ person_boxes[1][1] = 1
    /\ person_boxes[2][1] = 3
    /\ LET r == PersonsFrom(dets, 1, depth_image,
                            [positions |-> <<>>, boxes |-> <<>>, id_counter |-> 1])
       IN  /\ Matches(r.boxes, r.positions, 1, 2)
           /\ Matches(r.boxes, r.positions, 2, 3)
           /\ ~Matches(r.boxes, r.positions, 1, 3)

Processed == pc \in {"render", "key"}

(* C4: an alert (id_i, id_j, distance) is emitted for an index pair i < j  *)
(* if and only if the 3D distance between the two persons' deprojected     *)
(* box-center positions is below 0.8; each unordered pair yields at most   *)
(* one alert; alerts appear in ascending (i, j) order.                     *)
C4_AlertsExactlyClosePairs ==
    Processed =>
        LET pb == person_boxes
            cp == close_pairs
            P(i) == Deproject((pb[i][2] + pb[i][4]) \div 2,
                              (pb[i][3] + pb[i][5]) \div 2, pb[i][6])
            IsAlert(k, i, j) == cp[k][1] = pb[i][1] /\ cp[k][2] = pb[j][1]
        IN  /\ \A i, j \in 1..Len(pb) :
                   i < j => ((\E k \in 1..Len(cp) : IsAlert(k, i, j))
                                <=> DistLT(P(i), P(j), 80))
            /\ \A k \in 1..Len(cp) :
                   \E i, j \in 1..Len(pb) :
                       i < j /\ IsAlert(k, i, j) /\ cp[k][3] = Dist2(P(i), P(j))
            /\ \A k, m \in 1..Len(cp) :
                   k # m => {cp[k][1], cp[k][2]} # {cp[m][1], cp[m][2]}
            /\ \A k, m \in 1..Len(cp) :
                   k < m => \/ cp[k][1] < cp[m][1]
                            \/ cp[k][1] = cp[m][1] /\ cp[k][2] < cp[m][2]

(* three persons, two alerts that share a person, and one pair at exactly  *)
(* 0.8 m without an alert                                                  *)
C4_Witness ==
    /\ pc = "render"
    /\ Len(person_boxes) = 3
    /\ Len(close_pairs) = 2
    /\ close_pairs[1][2] = close_pairs[2][1]
    /\ Dist2(CenterPoint(person_boxes[1]), CenterPoint(person_boxes[3])) = 8000 * 8000

(* C5: once the camera stream has been started, it is stopped on every     *)
(* exit path of the process: the stop signal, an error raised inside the   *)
(* frame loop, a startup failure of the inference engine after the camera  *)
(* stream was started.                                                     *)
C5_CameraStoppedOnEveryExit ==
    (pc = "exited" /\ camera # "off") => camera = "stopped"

(* C6: when a frame arrives with the color sample or the depth sample      *)
(* unavailable, none of that frame's processing steps runs and no person   *)
(* or alert list is produced for it; the loop proceeds to wait for the     *)
(* next frame.                                                             *)
C6_MissingSampleSkipsFrame ==
    [][(pc = "check" /\ (~depth_frame \/ ~color_frame)) =>
          /\ pc' = "wait"
          /\ UNCHANGED <<output, dets, person_positions, person_boxes,
                         close_pairs, id_counter, camera, engine>>]_vars

(* back at wait_for_frames after a frame that had exactly one sample       *)
C6_Witness ==
    /\ pc = "wait"
    /\ frames >= 1
    /\ depth_frame # color_frame
    /\ camera = "streaming"

Decoded == pc \in {"positions", "merge", "proximity", "render", "key"}

(* C7: given an output tensor whose attribute dimension is not 84,         *)
(* decode_yolov11_persons returns an empty detection list without raising, *)
(* and the rest of the frame proceeds with zero persons and zero alerts.   *)
C7_WrongShapeDecodesEmpty ==
    /\ pc = "decode_nms" => output.shape0 = 84
    /\ (Decoded /\ output.shape0 # 84) =>
           /\ dets = <<>>
           /\ person_boxes = <<>>
           /\ person_positions = <<>>
           /\ close_pairs = <<>>

C7_Witness ==
    /\ pc = "key"
    /\ output.shape0 = 10
    /\ output.cols # <<>>
    /\ dets = <<>>
    /\ person_boxes = <<>>
    /\ close_pairs = <<>>

(* an anchor whose maximum-score class is the person class (no other class *)
(* scores higher; the first maximum wins) and whose maximum score exceeds  *)
(* 0.35                                                                    *)
Qualifies(a) ==
    /\ \A k \in 1..Len(a.scores) : a.scores[k] <= a.scores[1]
    /\ a.scores[1] > 35

(* the detection of anchor a: xyxy from cxcywh, x times 1280/640 and y     *)
(* times 720/640, in sixteenths, and the person score                      *)
DetectionOf(a) ==
    << 16 * (2 * a.box[1] - a.box[3]), 9 * (2 * a.box[2] - a.box[4]),
       16 * (2 * a.box[1] + a.box[3]), 9 * (2 * a.box[2] + a.box[4]),
       a.scores[1] >>

(* C8: every detection returned by decode_yolov11_persons comes from an    *)
(* anchor whose maximum-score class is the person class and whose maximum  *)
(* score strictly exceeds the confidence threshold; an anchor whose score  *)
(* equals the threshold, or whose maximum-score class is another class,    *)
(* never yields a detection; before suppression every qualifying anchor    *)
(* yields exactly one candidate.                                           *)
C8_DetectionsFromQualifyingAnchors ==
    /\ (pc = "decode_nms" \/ Decoded) =>
           \A d \in Range(dets) :
               \E a \in Range(output.cols) : Qualifies(a) /\ d = DetectionOf(a)
    /\ pc = "decode_nms" =>
           LET Q == {k \in 1..Len(output.cols) : Qualifies(output.cols[k])}
           IN  /\ Len(dets) = Cardinality(Q)
               /\ \A k \in Q : \E m \in 1..Len(dets) : dets[m] = DetectionOf(output.cols[k])
               /\ \A m, n \in 1..Len(dets) : m # n => dets[m] # dets[n]
    /\ (Decoded /\ output.shape0 = 84) =>
           ((\E a \in Range(output.cols) : Qualifies(a)) <=> dets # <<>>)

(* a tensor with an anchor at exactly the threshold, an anchor of another  *)
(* class and one qualifying anchor: one candidate                          *)
C8_Witness ==
    /\ pc = "decode_nms"
    /\ Len(output.cols) = 3
    /\ Len(dets) = 1
    /\ \E a \in Range(output.cols) : a.scores[1] = 35 /\ a.scores[2] < 35
    /\ \E a \in Range(output.cols) : a.scores[2] > a.scores[1]

AfterMerge == pc \in {"proximity", "render", "key"}

(* C9: in every processed frame the persons handed to proximity evaluation *)
(* and rendering have pairwise distinct ids, each an integer >= 1 drawn    *)
(* from 1..n (n = detections of the frame, assigned sequentially before    *)
(* the merge), strictly increasing in output order; the id counter         *)
(* restarts at 1 on every frame.                                           *)
C9_IdsUniqueSequentialPerFrame ==
    /\ pc = "merge" =>
           /\ Len(person_boxes) = Len(dets)
           /\ Len(person_positions) = Len(dets)
           /\ \A k \in 1..Len(dets) :
                  person_boxes[k][1] = k /\ person_positions[k][1] = k
           /\ id_counter = Len(dets) + 1
    /\ AfterMerge =>
           /\ \A k \in 1..Len(person_boxes) : person_boxes[k][1] \in 1..Len(dets)
           /\ \A k, m \in 1..Len(person_boxes) :
                  k < m => person_boxes[k][1] < person_boxes[m][1]
           /\ dets # <<>> => (person_boxes # <<>> /\ person_boxes[1][1] = 1)

(* the second frame, three detections, the persons 1 and 3 left            *)
C9_Witness ==
    /\ pc = "proximity"
    /\ frames = 2
    /\ Len(dets) = 3
    /\ Len(person_boxes) = 2
    /\ person_boxes[1][1] = 1
    /\ person_boxes[2][1] = 3

====
